---- MODULE Spec2Model ----
(***************************************************************************)
(* Model of the expo-sqlite resource adapter (src/src/js/index.tsx).       *)
(*                                                                         *)
(* The state is the `resources` table of the SQLite database together with *)
(* the options the adapter was created with.  Every method of the object   *)
(* returned by actionHook is one action; a method is built from the        *)
(* row-level statements it issues (Step), and the statements of the        *)
(* promises a method starts together are interleaved in every order.       *)
(***************************************************************************)
EXTENDS Integers, Sequences, FiniteSets, Bags, TLC

VARIABLES
    resources,      \* the rows of table `resources`
    cache,          \* third argument of the adapter: caching enabled
    transformDates, \* option transformDates of the adapter
    custom,         \* the adapter was given its own transformer pair
    running,        \* the method calls in flight, each at its next statement
    synced,         \* history: each record's local payload at its last sync
    last,           \* history: the last method call that completed
    before,         \* history: the method call that completed before `last`
    pre,            \* history: the table as it was before that call
    calls           \* history: number of calls completed so far

vars == <<resources, cache, transformDates, custom, running, synced,
          last, before, pre, calls>>

\* Longest sequence of method calls explored.
MaxCalls == 2

(***************************************************************************)
(* JavaScript values.  A document is a function from field names to        *)
(* scalars; scalars carry their type so that 1 and "1" differ.             *)
(***************************************************************************)
Num(s) == [t |-> "number", v |-> s]
Str(s) == [t |-> "string", v |-> s]
DateOf(s) == [t |-> "Date", v |-> s]
null == [t |-> "null", v |-> ""]
undefined == [t |-> "undefined", v |-> ""]

\* Column `data` holds SQL NULL or a JSON text; a JSON text is modelled by
\* the value it denotes.
NULL == [sqlnull |-> TRUE]

IsoDate == "2020-01-01T00:00:00.000Z"

\* JSON.stringify of an id (a number or a string).
JSONstringifyId(id) ==
    IF id.t = "number" THEN id.v ELSE "\"" \o id.v \o "\""

\* id.toString() of an id (a number or a string).
toString(id) == id.v

\* A scalar as JSON.stringify writes it: a Date becomes its ISO string.
toJSON(value) == IF value.t = "Date" THEN Str(value.v) ELSE value

\* JSON.stringify of a document.
JSONstringify(item) == [json |-> [f \in DOMAIN item |-> toJSON(item[f])]]

\* JSON.parse of column `data`; JSON.parse(null) parses the text "null".
JSONparse(data) == IF data = NULL THEN null ELSE data.json

\* JSON.parse(undefined) parses the text "undefined": a SyntaxError.
JSONparseThrows(data) == data = undefined

(***************************************************************************)
(* Transform pipeline (createExpoSQLiteResourceAdapter, lines 86-92).      *)
(***************************************************************************)
identity(item) == item

\* dateTransformer of the util package: ISO date strings become Dates.
dateTransformer(item) ==
    IF item = null THEN null
    ELSE [f \in DOMAIN item |->
            IF item[f].t = "string" /\ item[f].v = IsoDate
            THEN DateOf(item[f].v) ELSE item[f]]

\* inverseDateTransformer of the util package: Dates become ISO strings.
inverseDateTransformer(item) ==
    IF item = null THEN null
    ELSE [f \in DOMAIN item |->
            IF item[f].t = "Date" THEN Str(item[f].v) ELSE item[f]]

\* A transformer pair a caller supplies: the domain form of a record counts
\* field `a` one higher than its storage form.
Shift(item, from, to) ==
    IF item = null THEN null
    ELSE [f \in DOMAIN item |->
            IF f = "a" /\ item[f].t = "number" /\ \E i \in DOMAIN from : from[i] = item[f].v
            THEN Num(to[CHOOSE i \in DOMAIN from : from[i] = item[f].v])
            ELSE item[f]]

callerTransformer(item) == Shift(item, <<"0", "1", "2">>, <<"1", "2", "3">>)

callerInverseTransformer(item) == Shift(item, <<"1", "2", "3">>, <<"0", "1", "2">>)

\* Parameters of the adapter (line 86): the caller's pair, identity by default.
baseTransformer(item) == IF custom THEN callerTransformer(item) ELSE identity(item)

baseInverseTransformer(item) ==
    IF custom THEN callerInverseTransformer(item) ELSE identity(item)

transformer(item) ==
    IF transformDates THEN dateTransformer(baseTransformer(item))
    ELSE baseTransformer(item)

inverseTransformer(item) ==
    IF transformDates THEN inverseDateTransformer(baseInverseTransformer(item))
    ELSE inverseDateTransformer(item)

(***************************************************************************)
(* Scope key (actionHook, line 97): JSON.stringify(params) ?? "".          *)
(* params is undefined or an object, given as the sequence of its          *)
(* <<name, number text>> members in insertion order.                       *)
(***************************************************************************)
NoParams == [defined |-> FALSE, members |-> <<>>]
Params(members) == [defined |-> TRUE, members |-> members]

RECURSIVE JSONmembers(_)
JSONmembers(ms) ==
    IF ms = <<>> THEN ""
    ELSE "\"" \o ms[1][1] \o "\":" \o ms[1][2]
         \o (IF Len(ms) > 1 THEN "," ELSE "") \o JSONmembers(Tail(ms))

scopeKey(params) ==
    IF params.defined THEN "{" \o JSONmembers(params.members) \o "}" ELSE ""

(***************************************************************************)
(* The SQL statements the adapter issues against table `resources`         *)
(* (PRIMARY KEY (resource, key, target, id), lines 28-35).  Each statement *)
(* is atomic; a statement that violates the primary key changes nothing    *)
(* and fails.                                                              *)
(***************************************************************************)
Row(resource, key, target, id, data) ==
    [resource |-> resource, key |-> key, target |-> target, id |-> id, data |-> data]

PrimaryKey(r) == <<r.resource, r.key, r.target, r.id>>

\* Mutant of Matching: the condition on key is missing.
MatchingAnyKey(db, resource, key, target, id) ==
    {r \in db : r.resource = resource /\ r.target = target /\ r.id = id}

Matching(db, resource, key, target, id) ==
    {r \in db : r.resource = resource /\ r.key = key /\ r.target = target /\ r.id = id}

\* INSERT INTO resources (...) VALUES (...)
InsertValues(db, row) ==
    IF \E r \in db : PrimaryKey(r) = PrimaryKey(row)
    THEN [db |-> db, ok |-> FALSE]
    ELSE [db |-> db \cup {row}, ok |-> TRUE]

\* Mutant of InsertSelectRemote: the copy takes no payload.
InsertSelectRemoteNoData(db, resource, key, id) ==
    LET new == {Row(r.resource, r.key, "remote", r.id, NULL) :
                    r \in {x \in db : x.resource = resource /\ x.key = key
                                      /\ x.target = "local" /\ x.id = id}}
    IN  IF \E n \in new, r \in db : <<r.resource, r.key, r.target, r.id>>
                                     = <<n.resource, n.key, n.target, n.id>>
        THEN [db |-> db, ok |-> FALSE]
        ELSE [db |-> db \cup new, ok |-> TRUE]

\* INSERT INTO resources (...) SELECT resource, key, 'remote', id, data
\*   FROM resources WHERE resource = ? AND key = ? AND target = 'local' AND id = ?
InsertSelectRemote(db, resource, key, id) ==
    LET new == {Row(r.resource, r.key, "remote", r.id, r.data) :
                    r \in Matching(db, resource, key, "local", id)}
    IN  IF \E n \in new, r \in db : PrimaryKey(r) = PrimaryKey(n)
        THEN [db |-> db, ok |-> FALSE]
        ELSE [db |-> db \cup new, ok |-> TRUE]

\* Mutant of MergePatch: the patch is assigned field by field, a null of
\* the patch is stored as a value.
AssignPatch(target, patch) ==
    [f \in (DOMAIN target) \cup (DOMAIN patch) |->
        IF f \in DOMAIN patch THEN patch[f] ELSE target[f]]

\* RFC 7396 merge patch of one object onto another (SQLite json_patch);
\* the documents of this model hold scalars only.
MergePatch(target, patch) ==
    LET removed == {f \in DOMAIN patch : patch[f] = null}
        kept == ((DOMAIN target) \cup (DOMAIN patch)) \ removed
    IN  [f \in kept |-> IF f \in DOMAIN patch THEN patch[f] ELSE target[f]]

json_patch(data, patch) ==
    IF data = NULL \/ patch = NULL THEN NULL
    ELSE [json |-> MergePatch(data.json, patch.json)]

\* Mutant of UpdatePatchLocal: an upsert, which inserts the patch as the
\* local row when the id has none.
UpsertPatchLocal(db, patch, resource, key, id) ==
    LET hit == Matching(db, resource, key, "local", id)
    IN  IF hit = {} THEN db \cup {Row(resource, key, "local", id, patch)}
        ELSE (db \ hit) \cup {[r EXCEPT !.data = json_patch(r.data, patch)] : r \in hit}

\* UPDATE resources SET data = json_patch(data, ?)
\*   WHERE resource = ? AND key = ? AND target = 'local' AND id = ?
UpdatePatchLocal(db, patch, resource, key, id) ==
    LET hit == Matching(db, resource, key, "local", id)
    IN  (db \ hit) \cup {[r EXCEPT !.data = json_patch(r.data, patch)] : r \in hit}

\* Mutant of DeleteLocal: the statement without its target condition.
DeleteAnyTarget(db, resource, key, id) ==
    db \ {r \in db : r.resource = resource /\ r.key = key /\ r.id = id}

\* DELETE FROM resources WHERE resource = ? AND key = ? AND target = 'local' AND id = ?
DeleteLocal(db, resource, key, id) ==
    db \ Matching(db, resource, key, "local", id)

\* Mutant of DeleteRemoteIn: the payload is cleared, the row stays.
ClearRemoteIn(db, resource, key, ids) ==
    {IF r.resource = resource /\ r.key = key /\ r.target = "remote"
        /\ \E i \in DOMAIN ids : r.id = ids[i]
     THEN [r EXCEPT !.data = NULL] ELSE r : r \in db}

\* Mutant of DeleteRemoteIn: the `id IN (...)` condition is left out.
DeleteRemoteAll(db, resource, key, ids) ==
    db \ {r \in db : r.resource = resource /\ r.key = key /\ r.target = "remote"}

\* DELETE FROM resources WHERE resource = ? AND key = ? AND target = 'remote' AND id IN (...)
DeleteRemoteIn(db, resource, key, ids) ==
    db \ {r \in db : r.resource = resource /\ r.key = key /\ r.target = "remote"
                     /\ \E i \in DOMAIN ids : r.id = ids[i]}

\* db.getFirstAsync: the first matching row, or null.
getFirstAsync(db, resource, key, target, id) ==
    LET hit == Matching(db, resource, key, target, id)
    IN  IF hit = {} THEN null ELSE CHOOSE r \in hit : TRUE

\* Mutant of getAllLocal: the `target = 'local'` condition is left out.
getAllAnyTarget(db, resource, key) ==
    {r \in db : r.resource = resource /\ r.key = key}

\* db.getAllAsync("SELECT data FROM resources WHERE resource = ? AND key = ?
\*   AND target = 'local'"): the rows refresh() lists.
getAllLocal(db, resource, key) ==
    {r \in db : r.resource = resource /\ r.key = key /\ r.target = "local"}

\* db.getAllAsync("SELECT * FROM resources WHERE resource = ? AND key = ?"):
\* the rows getCache() lists.
getAllRows(db, resource, key) ==
    {r \in db : r.resource = resource /\ r.key = key}

\* A property of a JavaScript object; a missing property reads undefined.
Prop(obj, name) == IF name \in DOMAIN obj THEN obj[name] ELSE undefined

(***************************************************************************)
(* The promises of a method.  A task is one promise chain: `kind` names    *)
(* the code it runs, `pc` the statement it issues next.  A task ends       *)
(* "done" (fulfilled with `ret`) or "failed" (rejected).                   *)
(***************************************************************************)
Task(kind, id, data, pc) ==
    [kind |-> kind, id |-> id, data |-> data, pc |-> pc, ret |-> null]

Settled(task) == task.pc \in {"done", "failed"}

\* The id text the shadow lookup of a mutation binds: update, batchUpdate
\* and destroy bind JSON.stringify(id) (lines 149, 179, 208), batchDestroy
\* binds id.toString() (line 230).
LookupId(task) ==
    IF task.kind = "batchDestroy" THEN toString(task.id)
    ELSE JSONstringifyId(task.id)

\* if (cache && (await db.getFirstAsync(... target = 'remote' ...)) === null)
CheckStep(db, resource, key, task) ==
    LET found == getFirstAsync(db, resource, key, "remote", LookupId(task))
    IN  [db |-> db,
         task |-> [task EXCEPT !.pc = IF found = null THEN "capture" ELSE "write"]]

\* await db.runAsync("INSERT ... SELECT resource, key, 'remote', id, data ...")
CaptureStep(db, resource, key, task) ==
    LET r == InsertSelectRemote(db, resource, key, JSONstringifyId(task.id))
    IN  [db |-> r.db,
         task |-> [task EXCEPT !.pc = IF r.ok THEN "write" ELSE "failed"]]

\* The write to the local row: UPDATE ... json_patch for update and
\* batchUpdate, DELETE for destroy and batchDestroy.
WriteStep(db, resource, key, task) ==
    IF task.kind = "update"
    THEN [db |-> UpdatePatchLocal(db, JSONstringify(inverseTransformer(task.data)),
                                  resource, key, JSONstringifyId(task.id)),
          task |-> [task EXCEPT !.pc = "read"]]
    ELSE [db |-> DeleteLocal(db, resource, key, JSONstringifyId(task.id)),
          task |-> [task EXCEPT !.pc = "done"]]

\* return transformer(JSON.parse((await db.getFirstAsync(...))!.data));
\* reading .data of null throws.
ReadStep(db, resource, key, task) ==
    LET row == getFirstAsync(db, resource, key, "local", JSONstringifyId(task.id))
    IN  [db |-> db,
         task |-> IF row = null THEN [task EXCEPT !.pc = "failed"]
                  ELSE [task EXCEPT !.pc = "done",
                                    !.ret = transformer(JSONparse(row.data))]]

\* INSERT ... VALUES (?, ?, 'local', ?, ?) of store and batchStore.
InsertLocalStep(db, resource, key, task) ==
    LET r == InsertValues(db, Row(resource, key, "local", JSONstringifyId(task.id),
                                  JSONstringify(inverseTransformer(task.data))))
    IN  [db |-> r.db,
         task |-> [task EXCEPT !.pc = IF r.ok THEN "done" ELSE "failed"]]

\* INSERT ... VALUES (?, ?, 'remote', ?, null) of store and batchStore.
InsertRemoteStep(db, resource, key, task) ==
    LET r == InsertValues(db, Row(resource, key, "remote", JSONstringifyId(task.id), NULL))
    IN  [db |-> r.db,
         task |-> [task EXCEPT !.pc = IF r.ok THEN "done" ELSE "failed"]]

\* The next statement of an unsettled task.
Step(db, resource, key, task) ==
    CASE task.pc = "insertLocal" -> InsertLocalStep(db, resource, key, task)
      [] task.pc = "insertRemote" -> InsertRemoteStep(db, resource, key, task)
      [] task.pc = "check" -> CheckStep(db, resource, key, task)
      [] task.pc = "capture" -> CaptureStep(db, resource, key, task)
      [] task.pc = "write" -> WriteStep(db, resource, key, task)
      [] task.pc = "read" -> ReadStep(db, resource, key, task)

\* Promise.all over tasks started together: their statements run in any
\* order, a rejected task does not stop the others.  The set of outcomes
\* [db, tasks] once every task has settled.
RECURSIVE PromiseAll(_, _, _, _)
PromiseAll(db, resource, key, tasks) ==
    LET live == {i \in DOMAIN tasks : ~Settled(tasks[i])}
    IN  IF live = {} THEN {[db |-> db, tasks |-> tasks]}
        ELSE UNION {PromiseAll(s.db, resource, key, [tasks EXCEPT ![s.i] = s.task]) :
                    s \in {[i |-> i] @@ Step(db, resource, key, tasks[i]) : i \in live}}

Fulfilled(tasks) == \A i \in DOMAIN tasks : tasks[i].pc = "done"

\* Mutant of StoreTasks: the insert of the remote row is never started.
StoreTasksLocalOnly(item) ==
    <<Task("store", item.id, item, "insertLocal")>>

\* The tasks of the methods.
StoreTasks(item) ==
    <<Task("store", item.id, item, "insertLocal")>>
    \o (IF cache THEN <<Task("store", item.id, null, "insertRemote")>> ELSE <<>>)

RECURSIVE FlatMapStore(_)
FlatMapStore(items) ==
    IF items = <<>> THEN <<>> ELSE StoreTasks(Head(items)) \o FlatMapStore(Tail(items))

\* Mutant of MutationTask: the shadow row is looked up whether or not
\* caching is enabled.
MutationTaskAlwaysChecks(kind, id, data) ==
    Task(kind, id, data, "check")

MutationTask(kind, id, data) ==
    Task(kind, id, data, IF cache THEN "check" ELSE "write")

\* const {id, ...rest} = item
Rest(item) == [f \in (DOMAIN item) \ {"id"} |-> item[f]]

(***************************************************************************)
(* Inputs explored: the hook instances (resource, params), the ids, the    *)
(* records stored and the patches applied.                                 *)
(***************************************************************************)
N1 == Num("1")
S1 == Str("1")
Ids == {N1, S1}

Hook(resource, params) ==
    [resource |-> resource, params |-> params, key |-> scopeKey(params)]

Hooks == {Hook("posts", NoParams),
          Hook("posts", Params(<<<<"page", "1">>>>))}

Records == {[id |-> N1, a |-> Num("1"), b |-> Num("2")],
            [id |-> S1, a |-> Num("1"), b |-> Num("2")],
            [id |-> N1, at |-> DateOf(IsoDate)]}

Patches == {[b |-> null, c |-> Num("3")],
            [a |-> Num("2")]}

RecordLists == {<<[id |-> N1, at |-> DateOf(IsoDate)]>>,
                <<[id |-> N1, a |-> Num("1"), b |-> Num("2")],
                  [id |-> S1, a |-> Num("1"), b |-> Num("2")]>>}

ItemLists == {<<[id |-> S1, a |-> Num("2")]>>,
              <<[id |-> N1, a |-> Num("2")], [id |-> S1, b |-> null, c |-> Num("3")]>>}

IdLists == {<<N1>>, <<S1>>, <<N1, S1>>}

\* The JavaScript id a row's id text parses to (JSON.parse(entry.id)).
JSONparseId(text) == CHOOSE id \in Ids : JSONstringifyId(id) = text

Call(op, h, ids, data, ok, ret) ==
    [op |-> op, resource |-> h.resource, params |-> h.params, key |-> h.key,
     ids |-> ids, data |-> data, ok |-> ok, ret |-> ret, tasks |-> <<>>]

\* The call together with the promises it awaited, as they settled.
Awaited(call, tasks) == [call EXCEPT !.tasks = tasks]

Completed(call) ==
    /\ last' = call
    /\ before' = last
    /\ pre' = resources
    /\ calls' = calls + 1
    /\ UNCHANGED <<cache, transformDates, custom, running, synced>>

\* The provider opens the database file that earlier sessions wrote, and
\* migrateDb leaves an existing table alone (lines 22-23, 56-57): a session
\* starts from an empty table or from rows left behind.  Synced: records of
\* "posts" stored under no params and synced since, and a record of "users".
Synced ==
    {Row("posts", scopeKey(NoParams), "local", JSONstringifyId(N1),
         JSONstringify([id |-> N1, a |-> Num("1"), b |-> Num("2")])),
     Row("posts", scopeKey(NoParams), "local", JSONstringifyId(S1),
         JSONstringify([id |-> S1, a |-> Num("1"), b |-> Num("2")])),
     Row("users", scopeKey(NoParams), "local", JSONstringifyId(N1),
         JSONstringify([id |-> N1, a |-> Num("1"), b |-> Num("2")]))}

\* Tracked: with caching, record 1 of "posts" stored, synced and then
\* updated with {a: 2}; record "1" stored and not synced yet.
Tracked ==
    {Row("posts", scopeKey(NoParams), "local", JSONstringifyId(N1),
         JSONstringify([id |-> N1, a |-> Num("2"), b |-> Num("2")])),
     Row("posts", scopeKey(NoParams), "remote", JSONstringifyId(N1),
         JSONstringify([id |-> N1, a |-> Num("1"), b |-> Num("2")])),
     Row("posts", scopeKey(NoParams), "local", JSONstringifyId(S1),
         JSONstringify([id |-> S1, a |-> Num("1"), b |-> Num("2")])),
     Row("posts", scopeKey(NoParams), "remote", JSONstringifyId(S1), NULL),
     Row("users", scopeKey(NoParams), "local", JSONstringifyId(N1),
         JSONstringify([id |-> N1, a |-> Num("1"), b |-> Num("2")]))}

Init ==
    /\ cache \in BOOLEAN
    /\ resources \in (IF cache THEN {{}, Synced, Tracked} ELSE {{}, Synced})
    /\ transformDates \in BOOLEAN
    /\ custom = FALSE
    /\ running = <<>>
    /\ synced = <<>>
    /\ last = Call("none", Hook("", NoParams), <<>>, <<>>, TRUE, undefined)
    /\ before = last
    /\ pre = resources
    /\ calls = 0

\* An adapter created with the caller's own transformer pair, on a new
\* database file.
InitCaller ==
    /\ cache \in BOOLEAN
    /\ resources = {}
    /\ transformDates \in BOOLEAN
    /\ custom = TRUE
    /\ running = <<>>
    /\ synced = <<>>
    /\ last = Call("none", Hook("", NoParams), <<>>, <<>>, TRUE, undefined)
    /\ before = last
    /\ pre = resources
    /\ calls = 0

(***************************************************************************)
(* The methods of the object actionHook returns (lines 100-314).           *)
(***************************************************************************)
store(h, data) ==
    /\ calls < MaxCalls
    /\ \E out \in PromiseAll(resources, h.resource, h.key, StoreTasks(data)) :
        /\ resources' = out.db
        /\ Completed(Awaited(Call("store", h, <<data.id>>, <<data>>, Fulfilled(out.tasks),
                          IF Fulfilled(out.tasks) THEN data ELSE undefined),
                          out.tasks))

\* Mutant of batchStore: a batch one of whose inserts fails leaves the table
\* as it found it.
batchStoreAtomic(h, data) ==
    /\ calls < MaxCalls
    /\ \E out \in PromiseAll(resources, h.resource, h.key, FlatMapStore(data)) :
        /\ resources' = IF Fulfilled(out.tasks) THEN out.db ELSE resources
        /\ Completed(Awaited(Call("batchStore", h, [i \in DOMAIN data |-> data[i].id], data,
                          Fulfilled(out.tasks),
                          IF Fulfilled(out.tasks) THEN data ELSE undefined),
                          out.tasks))

batchStore(h, data) ==
    /\ calls < MaxCalls
    /\ \E out \in PromiseAll(resources, h.resource, h.key, FlatMapStore(data)) :
        /\ resources' = out.db
        /\ Completed(Awaited(Call("batchStore", h, [i \in DOMAIN data |-> data[i].id], data,
                          Fulfilled(out.tasks),
                          IF Fulfilled(out.tasks) THEN data ELSE undefined),
                          out.tasks))

update(h, id, data) ==
    /\ calls < MaxCalls
    /\ \E out \in PromiseAll(resources, h.resource, h.key,
                          <<MutationTask("update", id, data)>>) :
        /\ resources' = out.db
        /\ Completed(Awaited(Call("update", h, <<id>>, <<data>>, Fulfilled(out.tasks),
                          IF Fulfilled(out.tasks) THEN out.tasks[1].ret ELSE undefined),
                          out.tasks))

batchUpdate(h, data) ==
    /\ calls < MaxCalls
    /\ \E out \in PromiseAll(resources, h.resource, h.key,
                          [i \in DOMAIN data |->
                              MutationTask("update", data[i].id, Rest(data[i]))]) :
        /\ resources' = out.db
        /\ Completed(Awaited(Call("batchUpdate", h, [i \in DOMAIN data |-> data[i].id], data,
                          Fulfilled(out.tasks),
                          IF Fulfilled(out.tasks)
                          THEN [i \in DOMAIN data |-> out.tasks[i].ret] ELSE undefined),
                          out.tasks))

destroy(h, id) ==
    /\ calls < MaxCalls
    /\ \E out \in PromiseAll(resources, h.resource, h.key,
                          <<MutationTask("destroy", id, null)>>) :
        /\ resources' = out.db
        /\ Completed(Awaited(Call("destroy", h, <<id>>, <<>>, Fulfilled(out.tasks), undefined),
                          out.tasks))

batchDestroy(h, ids) ==
    /\ calls < MaxCalls
    /\ \E out \in PromiseAll(resources, h.resource, h.key,
                          [i \in DOMAIN ids |-> MutationTask("batchDestroy", ids[i], null)]) :
        /\ resources' = out.db
        /\ Completed(Awaited(Call("batchDestroy", h, ids, <<>>, Fulfilled(out.tasks), undefined),
                          out.tasks))

sync(h, ids) ==
    /\ calls < MaxCalls
    /\ resources' = DeleteRemoteIn(resources, h.resource, h.key,
                                   [i \in DOMAIN ids |-> JSONstringifyId(ids[i])])
    /\ Completed(Call("sync", h, ids, <<>>, TRUE, undefined))

\* refresh(id): one record by id.  The row comes from "SELECT data", so it
\* has the single property `data`; the code parses data.resource (line 257).
refreshOne(h, id) ==
    /\ calls < MaxCalls
    /\ LET row == getFirstAsync(resources, h.resource, h.key, "local", JSONstringifyId(id))
           data == IF row = null THEN null ELSE [data |-> row.data]
           throws == data # null /\ JSONparseThrows(Prop(data, "resource"))
       IN  Completed(Call("refresh", h, <<id>>, <<>>, ~throws,
                IF throws THEN undefined
                ELSE [data |-> IF data # null
                               THEN transformer(JSONparse(Prop(data, "resource")))
                               ELSE null,
                      error |-> null]))
    /\ UNCHANGED resources

\* The sequences that list the rows of a result set, in any order.
RowOrders(rows) ==
    {order \in [1..Cardinality(rows) -> rows] :
        \A i, j \in DOMAIN order : i # j => order[i] # order[j]}

\* refresh(): every local row of the scope (lines 262-273).
refreshAll(h) ==
    /\ calls < MaxCalls
    /\ \E data \in RowOrders(getAllLocal(resources, h.resource, h.key)) :
          Completed(Call("refresh", h, <<>>, <<>>, TRUE,
                [data |-> [i \in DOMAIN data |-> transformer(JSONparse(data[i].data))],
                 error |-> null]))
    /\ UNCHANGED resources

\* Mutant of GroupById: the `local: null` of a new entry is written after
\* the property of the row.
RECURSIVE GroupByIdLocalLast(_, _)
GroupByIdLocalLast(data, map) ==
    IF data = <<>> THEN map
    ELSE LET entry == Head(data)
             id == CHOOSE x \in Ids : JSONstringifyId(x) = entry.id
             at == {i \in DOMAIN map : map[i].id = id}
         IN  IF at = {}
             THEN GroupByIdLocalLast(Tail(data),
                    Append(map, [id |-> id, local |-> null]
                                @@ (entry.target :> entry.data)))
             ELSE GroupByIdLocalLast(Tail(data),
                    [map EXCEPT ![CHOOSE i \in at : TRUE] = (entry.target :> entry.data) @@ @])

\* The loop of getCache over the transformed rows (lines 285-305): `map` is
\* the Map's values in insertion order.
RECURSIVE GroupById(_, _)
GroupById(data, map) ==
    IF data = <<>> THEN map
    ELSE LET entry == Head(data)
             id == JSONparseId(entry.id)
             at == {i \in DOMAIN map : map[i].id = id}
         IN  IF at = {}
             THEN GroupById(Tail(data),
                    Append(map, (entry.target :> entry.data)
                                @@ [id |-> id, local |-> null]))
             ELSE GroupById(Tail(data),
                    [map EXCEPT ![CHOOSE i \in at : TRUE] = (entry.target :> entry.data) @@ @])

\* The value getCache() returns for the rows in the order the query lists them.
CacheEntries(rows) ==
    GroupById([i \in DOMAIN rows |->
                  [rows[i] EXCEPT !.data = transformer(JSONparse(rows[i].data))]],
              <<>>)

getCache(h) ==
    /\ calls < MaxCalls
    /\ \E rows \in RowOrders(getAllRows(resources, h.resource, h.key)) :
          Completed(Call("getCache", h, <<>>, <<>>, TRUE, CacheEntries(rows)))
    /\ UNCHANGED resources

Next ==
    \/ \E h \in Hooks, data \in Records : store(h, data)
    \/ \E h \in Hooks, data \in RecordLists : batchStore(h, data)
    \/ \E h \in Hooks, id \in Ids, data \in Patches : update(h, id, data)
    \/ \E h \in Hooks, data \in ItemLists : batchUpdate(h, data)
    \/ \E h \in Hooks, id \in Ids : destroy(h, id)
    \/ \E h \in Hooks, ids \in IdLists : batchDestroy(h, ids)
    \/ \E h \in Hooks, ids \in IdLists : sync(h, ids)
    \/ \E h \in Hooks, id \in Ids : refreshOne(h, id)
    \/ \E h \in Hooks : refreshAll(h)
    \/ \E h \in Hooks : getCache(h)

Spec == Init /\ [][Next]_vars

\* Two components that call the hook with the same params, written with the
\* keys in a different order.
KeyHooks == {Hook("posts", Params(<<<<"page", "1">>, <<"sort", "2">>>>)),
             Hook("posts", Params(<<<<"sort", "2">>, <<"page", "1">>>>))}

NextCaller ==
    \/ \E h \in KeyHooks, data \in Records : store(h, data)
    \/ \E h \in KeyHooks, data \in RecordLists : batchStore(h, data)
    \/ \E h \in KeyHooks, id \in Ids, data \in Patches : update(h, id, data)
    \/ \E h \in KeyHooks, data \in ItemLists : batchUpdate(h, data)
    \/ \E h \in KeyHooks, id \in Ids : destroy(h, id)
    \/ \E h \in KeyHooks, ids \in IdLists : batchDestroy(h, ids)
    \/ \E h \in KeyHooks, ids \in IdLists : sync(h, ids)
    \/ \E h \in KeyHooks, id \in Ids : refreshOne(h, id)
    \/ \E h \in KeyHooks : refreshAll(h)
    \/ \E h \in KeyHooks : getCache(h)

SpecCaller == InitCaller /\ [][NextCaller]_vars

(***************************************************************************)
(* Properties.  They are stated over the last completed call (`last`), the *)
(* table before it (`pre`) and the table after it (`resources`).           *)
(***************************************************************************)
LocalRows(db, call, id) ==
    {r \in db : r.resource = call.resource /\ r.key = call.key
                /\ r.target = "local" /\ r.id = JSONstringifyId(id)}

ShadowRows(db, call, id) ==
    {r \in db : r.resource = call.resource /\ r.key = call.key
                /\ r.target = "remote" /\ r.id = JSONstringifyId(id)}

\* The call was the method `op` applied to the single id `id`.
Called(call, op, id) == call.op = op /\ call.ids = <<id>>

\* C1: with caching enabled, the first update(id, partial) or destroy(id) of
\* a clean record (local row, no shadow row) leaves exactly one shadow row
\* for the id, holding the local payload as it was before the mutation;
\* after destroy the local row is gone and the shadow row is there.
C1_FirstMutationCapturesBaseline ==
    \A id \in Ids :
        (/\ cache
         /\ Called(last, "update", id) \/ Called(last, "destroy", id)
         /\ LocalRows(pre, last, id) # {}
         /\ ShadowRows(pre, last, id) = {})
        => /\ Cardinality(ShadowRows(resources, last, id)) = 1
           /\ \A s \in ShadowRows(resources, last, id) :
                 \A l \in LocalRows(pre, last, id) : s.data = l.data
           /\ last.op = "destroy" => LocalRows(resources, last, id) = {}

\* A clean record was destroyed: its payload moved to the shadow row.
C1_Witness ==
    /\ cache
    /\ Called(last, "destroy", S1)
    /\ LocalRows(pre, last, S1) # {}
    /\ ShadowRows(pre, last, S1) = {}
    /\ LocalRows(resources, last, S1) = {}
    /\ ShadowRows(resources, last, S1) # {}

\* C2: a shadow row that exists is neither changed nor removed by store,
\* update, destroy or a batch method; only a sync that lists its id removes
\* it.  A record stored with caching and then updated keeps the null
\* sentinel as its shadow payload.
C2_ShadowKeptUntilSync ==
    \A r \in pre :
        (/\ r.target = "remote"
         /\ ~(/\ last.op = "sync"
              /\ r.resource = last.resource
              /\ r.key = last.key
              /\ \E i \in DOMAIN last.ids : r.id = JSONstringifyId(last.ids[i])))
        => r \in resources

\* A record was stored and then updated: the local payload changed and the
\* shadow row still holds the sentinel.
C2_Witness ==
    /\ cache
    /\ Called(before, "store", S1) /\ before.ok
    /\ before.resource = last.resource /\ before.key = last.key
    /\ Called(last, "update", S1)
    /\ last.ok
    /\ \E s \in ShadowRows(pre, last, S1) : s.data = NULL
    /\ \E s \in ShadowRows(resources, last, S1) : s.data = NULL
    /\ LocalRows(pre, last, S1) # LocalRows(resources, last, S1)

\* The entries getCache() can return for the scope of `call` in table db.
CacheViews(db, call) ==
    {CacheEntries(rows) : rows \in RowOrders(getAllRows(db, call.resource, call.key))}

\* C3: after sync(id) getCache() has no shadow field for the id, and the
\* update or destroy of the id that follows captures a shadow row holding
\* the local payload of that moment.
C3_SyncResetsTracking ==
    \A id \in Ids :
        /\ (last.op = "sync" /\ \E i \in DOMAIN last.ids : last.ids[i] = id)
           => \A view \in CacheViews(resources, last) :
                 \A i \in DOMAIN view : view[i].id = id => "remote" \notin DOMAIN view[i]
        /\ (/\ cache
            /\ before.op = "sync" /\ \E i \in DOMAIN before.ids : before.ids[i] = id
            /\ before.resource = last.resource /\ before.key = last.key
            /\ Called(last, "update", id) \/ Called(last, "destroy", id)
            /\ LocalRows(pre, last, id) # {})
           => /\ ShadowRows(resources, last, id) # {}
              /\ \A s \in ShadowRows(resources, last, id) :
                    \A l \in LocalRows(pre, last, id) : s.data = l.data

\* Record 1, tracked with baseline {a: 1, b: 2} and since updated to
\* {a: 2, b: 2}, was synced and then updated: the new shadow row holds
\* {a: 2, b: 2}, not the earlier baseline.
C3_Witness ==
    /\ cache
    /\ Called(before, "sync", N1)
    /\ before.resource = last.resource /\ before.key = last.key
    /\ Called(last, "update", N1)
    /\ last.ok
    /\ \E s \in ShadowRows(resources, last, N1) :
          s.data = JSONstringify([id |-> N1, a |-> Num("2"), b |-> Num("2")])
    /\ \A l \in LocalRows(resources, last, N1) :
          l.data # JSONstringify([id |-> N1, a |-> Num("2"), b |-> Num("2")])

\* C4: a call under one (resource, key) leaves every row of another
\* resource or key as it was, and refresh and getCache return nothing but
\* rows of their own scope.
C4_ScopeIsolation ==
    /\ {r \in pre : r.resource # last.resource \/ r.key # last.key}
       = {r \in resources : r.resource # last.resource \/ r.key # last.key}
    /\ (last.op = "refresh" /\ last.ids = <<>>)
       => \A i \in DOMAIN last.ret.data :
             \E r \in resources :
                /\ r.resource = last.resource /\ r.key = last.key
                /\ last.ret.data[i] = transformer(JSONparse(r.data))
    /\ (last.op = "refresh" /\ last.ids = <<>>)
       => Len(last.ret.data)
          = Cardinality({r \in resources : r.resource = last.resource /\ r.key = last.key
                                           /\ r.target = "local"})
    /\ last.op = "getCache"
       => \A i \in DOMAIN last.ret :
             \A f \in (DOMAIN last.ret[i]) \ {"id"} :
                \/ last.ret[i][f] = null
                \/ \E r \in resources :
                      /\ r.resource = last.resource /\ r.key = last.key
                      /\ r.id = JSONstringifyId(last.ret[i].id)
                      /\ r.target = f
                      /\ last.ret[i][f] = transformer(JSONparse(r.data))

\* Record 1 was destroyed under params {page: 1} while records with the
\* same id exist under no params and under resource "users".
C4_Witness ==
    /\ Called(last, "destroy", N1)
    /\ last.resource = "posts" /\ last.key = scopeKey(Params(<<<<"page", "1">>>>))
    /\ LocalRows(pre, last, N1) # {}
    /\ LocalRows(resources, last, N1) = {}
    /\ \E r \in resources : r.resource = "posts" /\ r.key = scopeKey(NoParams)
                            /\ r.id = JSONstringifyId(N1)
    /\ \E r \in resources : r.resource = "users" /\ r.id = JSONstringifyId(N1)

\* The promises the call started (store, update, destroy and their batch forms).
TasksOf(call) ==
    CASE call.op = "store" -> StoreTasks(call.data[1])
      [] call.op = "batchStore" -> FlatMapStore(call.data)
      [] call.op = "update" -> <<MutationTask("update", call.ids[1], call.data[1])>>
      [] call.op = "batchUpdate" ->
            [i \in DOMAIN call.data |->
                MutationTask("update", call.data[i].id, Rest(call.data[i]))]
      [] call.op = "destroy" -> <<MutationTask("destroy", call.ids[1], null)>>
      [] call.op = "batchDestroy" ->
            [i \in DOMAIN call.ids |-> MutationTask("batchDestroy", call.ids[i], null)]

RowsOf(db, call, id) == LocalRows(db, call, id) \cup ShadowRows(db, call, id)

\* C5: numeric id 1 and string id "1" are distinct records: a call on one
\* of them leaves the rows of the other as they were, and ends as it would
\* have ended had the other had no rows at all.
C5_IdTypeFidelity ==
    \A x, y \in Ids :
        (x # y /\ last.ids = <<x>>)
        => /\ RowsOf(resources, last, y) = RowsOf(pre, last, y)
           /\ last.op \in {"store", "update", "destroy", "batchDestroy"}
              => \E out \in PromiseAll(pre \ RowsOf(pre, last, y),
                                       last.resource, last.key, TasksOf(last)) :
                    /\ out.db = resources \ RowsOf(resources, last, y)
                    /\ Fulfilled(out.tasks) = last.ok
           /\ last.op = "sync"
              => DeleteRemoteIn(pre \ RowsOf(pre, last, y), last.resource, last.key,
                                <<JSONstringifyId(x)>>)
                 = resources \ RowsOf(resources, last, y)

\* C6: update(id, partial) on a record with a local row merges the patch
\* into the local payload: a field the patch sets to null is removed, any
\* other field of the patch is added or overwritten, a field the patch
\* omits keeps its value; the call returns the transformer's image of the
\* resulting payload.
C6_MergePatchSemantics ==
    \A id \in Ids :
        (Called(last, "update", id) /\ LocalRows(pre, last, id) # {})
        => /\ last.ok
           /\ LocalRows(resources, last, id) # {}
           /\ \A l \in LocalRows(pre, last, id) : \A n \in LocalRows(resources, last, id) :
                 LET old == JSONparse(l.data)
                     new == JSONparse(n.data)
                     patch == JSONstringify(inverseTransformer(last.data[1])).json
                     deleted == {f \in DOMAIN patch : patch[f] = null}
                     written == (DOMAIN patch) \ deleted
                 IN  /\ DOMAIN new = ((DOMAIN old) \ deleted) \cup written
                     /\ \A f \in written : new[f] = patch[f]
                     /\ \A f \in (DOMAIN old) \ (DOMAIN patch) : new[f] = old[f]
                     /\ last.ret = transformer(new)

\* {id: 1, a: 1, b: 2} patched with {b: null, c: 3} gave {id: 1, a: 1, c: 3}.
C6_Witness ==
    /\ Called(last, "update", N1)
    /\ last.data = <<[b |-> null, c |-> Num("3")]>>
    /\ \E l \in LocalRows(pre, last, N1) :
          l.data = JSONstringify([id |-> N1, a |-> Num("1"), b |-> Num("2")])
    /\ \E n \in LocalRows(resources, last, N1) :
          n.data = JSONstringify([id |-> N1, a |-> Num("1"), c |-> Num("3")])
    /\ last.ret = [id |-> N1, a |-> Num("1"), c |-> Num("3")]

\* C7: refresh(id) never fails on a lookup: with a local row it returns
\* {data: transformer(local payload), error: null}, without one it returns
\* {data: null, error: null}.
C7_RefreshById ==
    \A id \in Ids :
        (last.op = "refresh" /\ last.ids = <<id>>)
        => /\ last.ok
           /\ last.ret.error = null
           /\ \A l \in LocalRows(resources, last, id) :
                 last.ret.data = transformer(JSONparse(l.data))
           /\ LocalRows(resources, last, id) = {} => last.ret.data = null

\* C8: getCache() returns one entry per id that has a row in the scope;
\* `local` is the transformer's image of the local payload, or null without
\* a local row; the shadow field (`remote`) is present exactly when the id
\* has a shadow row, and is null when that row holds the sentinel.
C8_GetCacheEntries ==
    last.op = "getCache"
    => LET ids == {id \in Ids : RowsOf(resources, last, id) # {}}
       IN  /\ Len(last.ret) = Cardinality(ids)
           /\ \A id \in ids : \E i \in DOMAIN last.ret : last.ret[i].id = id
           /\ \A i \in DOMAIN last.ret :
                 LET e == last.ret[i]
                 IN  /\ e.id \in ids
                     /\ LocalRows(resources, last, e.id) = {} => e.local = null
                     /\ \A l \in LocalRows(resources, last, e.id) :
                           e.local = transformer(JSONparse(l.data))
                     /\ "remote" \in DOMAIN e <=> ShadowRows(resources, last, e.id) # {}
                     /\ \A r \in ShadowRows(resources, last, e.id) :
                           e.remote = IF r.data = NULL THEN null
                                      ELSE transformer(JSONparse(r.data))

\* getCache() returned an entry of a destroyed record (local null, shadow a
\* snapshot) and an entry of a stored record (shadow null).
C8_Witness ==
    /\ last.op = "getCache"
    /\ \E i \in DOMAIN last.ret :
          /\ last.ret[i].local = null
          /\ "remote" \in DOMAIN last.ret[i]
          /\ last.ret[i].remote # null
    /\ \E j \in DOMAIN last.ret :
          /\ last.ret[j].local # null
          /\ "remote" \in DOMAIN last.ret[j]
          /\ last.ret[j].remote = null

\* C9: with caching, store(record) on an id without rows in the scope
\* leaves the local row holding the stored form of the record and a shadow
\* row holding null, and returns the record.
C9_StoreFreshRecord ==
    \A id \in Ids :
        (cache /\ Called(last, "store", id) /\ RowsOf(pre, last, id) = {})
        => /\ last.ok
           /\ last.ret = last.data[1]
           /\ LocalRows(resources, last, id)
              = {Row(last.resource, last.key, "local", JSONstringifyId(id),
                     JSONstringify(inverseTransformer(last.data[1])))}
           /\ ShadowRows(resources, last, id)
              = {Row(last.resource, last.key, "remote", JSONstringifyId(id), NULL)}

\* A record with a Date field was stored: the local row holds the ISO
\* string, the shadow row the sentinel.
C9_Witness ==
    /\ cache
    /\ Called(last, "store", N1)
    /\ last.data = <<[id |-> N1, at |-> DateOf(IsoDate)]>>
    /\ RowsOf(pre, last, N1) = {}
    /\ \E l \in LocalRows(resources, last, N1) :
          l.data = [json |-> [id |-> N1, at |-> Str(IsoDate)]]
    /\ \E r \in ShadowRows(resources, last, N1) : r.data = NULL

\* C10: store(record) is an upsert: on an id that has a local or a shadow
\* row it completes without error, the local payload becomes the stored
\* form of the record and an existing shadow row stays as it was.
C10_StoreUpserts ==
    \A id \in Ids :
        (Called(last, "store", id) /\ RowsOf(pre, last, id) # {})
        => /\ last.ok
           /\ LocalRows(resources, last, id)
              = {Row(last.resource, last.key, "local", JSONstringifyId(id),
                     JSONstringify(inverseTransformer(last.data[1])))}
           /\ ShadowRows(pre, last, id) \subseteq ShadowRows(resources, last, id)

\* The id of the call's list that a row's id text names, if any.
Listed(call, r) == \E i \in DOMAIN call.ids : r.id = JSONstringifyId(call.ids[i])

\* C11: sync(ids...) removes the shadow row (sentinel or snapshot) of exactly
\* the listed ids of its scope and nothing else: every local row and the
\* shadow row of every other id stay as they were, and for ids without a
\* shadow row the table is unchanged.
C11_SyncFrame ==
    last.op = "sync"
    => /\ last.ok
       /\ resources = pre \ {r \in pre : /\ r.resource = last.resource
                                          /\ r.key = last.key
                                          /\ r.target = "remote"
                                          /\ Listed(last, r)}
       /\ \A r \in pre : r.target = "local" => r \in resources
       /\ (\A i \in DOMAIN last.ids : ShadowRows(pre, last, last.ids[i]) = {})
            => resources = pre

\* sync(1) removed the snapshot of record 1 and kept the sentinel of "1".
C11_Witness ==
    /\ Called(last, "sync", N1)
    /\ \E r \in ShadowRows(pre, last, N1) : r.data # NULL
    /\ ShadowRows(resources, last, N1) = {}
    /\ \E r \in ShadowRows(resources, last, S1) : r.data = NULL
    /\ LocalRows(resources, last, N1) # {}

\* The outcomes destroy(id) has from table db: the table it leaves and
\* whether its promise fulfils.
DestroyOutcomes(db, call, id) ==
    {[db |-> out.db, ok |-> Fulfilled(out.tasks)] :
        out \in PromiseAll(db, call.resource, call.key,
                           <<MutationTask("destroy", id, null)>>)}

\* C12: batchDestroy([id]) ends in the table and with the success or failure
\* that destroy(id) has from the same table, for numeric and string ids and
\* whatever rows the id has.
C12_BatchDestroyAsDestroy ==
    \A id \in Ids :
        Called(last, "batchDestroy", id)
        => [db |-> resources, ok |-> last.ok] \in DestroyOutcomes(pre, last, id)

Batch == {"batchStore", "batchUpdate", "batchDestroy"}

\* The write of a fulfilled promise of a batch is in table db.
Persisted(db, call, task) ==
    CASE task.kind = "store" /\ "id" \in DOMAIN task.data ->
            \E r \in LocalRows(db, call, task.id) :
                r.data = JSONstringify(inverseTransformer(task.data))
      [] task.kind = "store" -> ShadowRows(db, call, task.id) # {}
      [] task.kind = "update" ->
            \E r \in LocalRows(db, call, task.id) :
                task.ret = transformer(JSONparse(r.data))
      [] task.kind = "batchDestroy" -> LocalRows(db, call, task.id) = {}

\* C13: a batch is not all-or-nothing.  batchStore, batchUpdate and
\* batchDestroy reject exactly when one of their per-item promises rejects,
\* and the writes of the promises that fulfilled are in the table all the
\* same: nothing is rolled back.
C13_BatchNoRollback ==
    last.op \in Batch
    => /\ last.ok <=> \A i \in DOMAIN last.tasks : last.tasks[i].pc = "done"
       /\ \A i \in DOMAIN last.tasks :
             last.tasks[i].pc = "done" => Persisted(resources, last, last.tasks[i])

\* batchStore of records 1 and "1" rejected on one of them and left the
\* local row of the other, which was not there before.
C13_Witness ==
    /\ last.op = "batchStore"
    /\ ~last.ok
    /\ \E i, j \in DOMAIN last.tasks :
          /\ last.tasks[i].pc = "failed"
          /\ last.tasks[j].pc = "done"
          /\ last.tasks[i].id # last.tasks[j].id
          /\ LocalRows(pre, last, last.tasks[j].id) = {}
          /\ LocalRows(resources, last, last.tasks[j].id) # {}

\* batchUpdate rejected on a record without a local row and patched the other.
C13_WitnessUpdate ==
    /\ last.op = "batchUpdate"
    /\ ~last.ok
    /\ resources # pre
    /\ \E i \in DOMAIN last.tasks : last.tasks[i].pc = "done"

\* batchDestroy rejected on one id and deleted the local row of the other.
C13_WitnessDestroy ==
    /\ last.op = "batchDestroy"
    /\ ~last.ok
    /\ \E i \in DOMAIN last.tasks :
          /\ last.tasks[i].pc = "done"
          /\ LocalRows(pre, last, last.tasks[i].id) # {}

HasDate(item) == \E f \in DOMAIN item : item[f].t = "Date"

\* C14: store writes the record through the caller's inverseTransformer
\* (composed with the date codec only when transformDates is set), refresh()
\* reads it through the caller's transformer, and for an inverse pair the
\* record refresh() returns equals the record stored.
C14_TransformRoundTrip ==
    LET writeSide(item) ==
            IF transformDates THEN inverseDateTransformer(baseInverseTransformer(item))
            ELSE baseInverseTransformer(item)
        readSide(item) ==
            IF transformDates THEN dateTransformer(baseTransformer(item))
            ELSE baseTransformer(item)
    IN  (/\ before.op = "store" /\ before.ok
         /\ last.op = "refresh" /\ last.ids = <<>>
         /\ last.resource = before.resource /\ last.key = before.key)
        => \E r \in LocalRows(resources, last, before.ids[1]) :
              /\ r.data = JSONstringify(writeSide(before.data[1]))
              /\ \E i \in DOMAIN last.ret.data :
                    last.ret.data[i] = readSide(JSONparse(r.data))
              /\ (transformDates \/ ~HasDate(before.data[1]))
                    => \E i \in DOMAIN last.ret.data : last.ret.data[i] = before.data[1]

\* Same keys with the same values, whatever the order they were written in.
StructurallyEqual(p, q) ==
    /\ p.defined = q.defined
    /\ {p.members[i] : i \in DOMAIN p.members} = {q.members[i] : i \in DOMAIN q.members}

\* C15: hooks of one resource whose params are structurally equal share a
\* scope key, so that the record one of them stored is among the records
\* refresh() and getCache() return to the other.
C15_CanonicalScopeKey ==
    (/\ before.op = "store" /\ before.ok
     /\ last.op \in {"refresh", "getCache"} /\ last.ids = <<>>
     /\ last.resource = before.resource
     /\ StructurallyEqual(last.params, before.params))
    => /\ last.key = before.key
       /\ LET records == IF last.op = "refresh" THEN last.ret.data ELSE last.ret
          IN  \E i \in DOMAIN records : records[i].id = before.ids[1]

\* C16: refresh() without an id fulfils with error = null and with exactly
\* the transformed payloads of the local rows of its scope: one element for
\* each id that has a local row, none for an id that only has a shadow row,
\* and no element taken from a shadow row.
C16_RefreshLists ==
    (last.op = "refresh" /\ last.ids = <<>>)
    => LET data == last.ret.data
           stored == {id \in Ids : LocalRows(resources, last, id) # {}}
       IN  /\ last.ok
           /\ last.ret.error = null
           /\ resources = pre
           /\ Len(data) = Cardinality(stored)
           /\ \A id \in stored :
                 \E i \in DOMAIN data :
                     \E r \in LocalRows(resources, last, id) :
                         data[i] = transformer(JSONparse(r.data))
           /\ \A id \in Ids \ stored, i \in DOMAIN data : data[i].id # id

\* refresh() listed record "1" alone while record 1, destroyed and not
\* synced, still had its snapshot in the scope.
C16_Witness ==
    /\ last.op = "refresh" /\ last.ids = <<>>
    /\ LocalRows(resources, last, N1) = {}
    /\ \E r \in ShadowRows(resources, last, N1) : r.data # NULL
    /\ LocalRows(resources, last, S1) # {}
    /\ Len(last.ret.data) = 1
    /\ last.ret.data[1].id = S1

\* C17: with caching disabled no method ever creates a shadow row: every
\* row of the table is a local row and no entry getCache() returns has a
\* `remote` field.
C17_NoShadowWithoutCache ==
    ~cache
    => /\ \A r \in resources : r.target = "local"
       /\ last.op = "getCache"
            => \A i \in DOMAIN last.ret : "remote" \notin DOMAIN last.ret[i]

\* Without caching, a record was updated and getCache() then listed it.
C17_Witness ==
    /\ ~cache
    /\ before.op \in {"update", "destroy", "batchUpdate", "batchDestroy"}
    /\ before.ok
    /\ last.op = "getCache"
    /\ last.resource = before.resource /\ last.key = before.key
    /\ \E i \in DOMAIN last.ret : last.ret[i].id = before.ids[1]

\* C18: update(id, partial) on an id without a local row, never stored or
\* already destroyed, rejects and leaves the table as it was: it creates
\* neither a local row nor a shadow row for the id.
C18_UpdateMissingRow ==
    \A id \in Ids :
        (Called(last, "update", id) /\ LocalRows(pre, last, id) = {})
        => /\ ~last.ok
           /\ last.ret = undefined
           /\ resources = pre
           /\ LocalRows(resources, last, id) = {}
           /\ ShadowRows(resources, last, id) = ShadowRows(pre, last, id)

\* With caching, update(id) rejected on a record that destroy(id) had
\* deleted; the snapshot destroy captured is still the only row of the id.
C18_Witness ==
    \E id \in Ids :
        /\ cache
        /\ Called(before, "destroy", id) /\ before.ok
        /\ Called(last, "update", id) /\ ~last.ok
        /\ before.resource = last.resource /\ before.key = last.key
        /\ LocalRows(pre, last, id) = {}
        /\ \E r \in ShadowRows(resources, last, id) : r.data # NULL

(***************************************************************************)
(* Method calls in flight.  update, destroy and sync are async functions   *)
(* over one database connection and nothing serialises them: a call that   *)
(* is started runs up to its first statement, and the statements of the    *)
(* calls in flight then run one at a time in any order.                    *)
(***************************************************************************)
\* Most calls started in a run.
MaxTasks == 2

RaceHook == Hook("posts", NoParams)
RaceIds == {N1}

Absent == [absent |-> TRUE]

\* The payload of the local row of an id, or Absent.
Payload(db, id) ==
    LET hit == LocalRows(db, RaceHook, id)
    IN  IF hit = {} THEN Absent ELSE (CHOOSE r \in hit : TRUE).data

\* A call in flight: its task, whether the id had no shadow row when the
\* call was made, and the local payload of that moment.
Started(task) ==
    [task |-> task,
     clean |-> ShadowRows(resources, RaceHook, task.id) = {},
     base |-> Payload(resources, task.id)]

InitRace ==
    /\ cache = TRUE
    /\ resources = Synced
    /\ transformDates = FALSE
    /\ custom = FALSE
    /\ running = <<>>
    /\ synced = [id \in RaceIds |-> Payload(Synced, id)]
    /\ last = Call("none", Hook("", NoParams), <<>>, <<>>, TRUE, undefined)
    /\ before = last
    /\ pre = resources
    /\ calls = 0

startUpdate(id, data) ==
    /\ Len(running) < MaxTasks
    /\ running' = Append(running, Started(MutationTask("update", id, data)))
    /\ UNCHANGED <<resources, cache, transformDates, custom, synced,
                   last, before, pre, calls>>

startDestroy(id) ==
    /\ Len(running) < MaxTasks
    /\ running' = Append(running, Started(MutationTask("destroy", id, null)))
    /\ UNCHANGED <<resources, cache, transformDates, custom, synced,
                   last, before, pre, calls>>

startSync(id) ==
    /\ Len(running) < MaxTasks
    /\ running' = Append(running, Started(Task("sync", id, null, "delete")))
    /\ UNCHANGED <<resources, cache, transformDates, custom, synced,
                   last, before, pre, calls>>

\* The next statement of an update or destroy in flight.
stepMutation(i) ==
    /\ i \in DOMAIN running
    /\ running[i].task.kind # "sync"
    /\ ~Settled(running[i].task)
    /\ LET s == Step(resources, RaceHook.resource, RaceHook.key, running[i].task)
       IN  /\ resources' = s.db
           /\ running' = [running EXCEPT ![i].task = s.task]
    /\ UNCHANGED <<cache, transformDates, custom, synced, last, before, pre, calls>>

\* The DELETE of a sync in flight; the call completes with it.
stepSync(i) ==
    /\ i \in DOMAIN running
    /\ running[i].task.kind = "sync"
    /\ ~Settled(running[i].task)
    /\ resources' = DeleteRemoteIn(resources, RaceHook.resource, RaceHook.key,
                                   <<JSONstringifyId(running[i].task.id)>>)
    /\ running' = [running EXCEPT ![i].task.pc = "done"]
    /\ synced' = [synced EXCEPT ![running[i].task.id] =
                                   Payload(resources, running[i].task.id)]
    /\ UNCHANGED <<cache, transformDates, custom, last, before, pre, calls>>

NextRace ==
    \/ \E id \in RaceIds, data \in Patches : startUpdate(id, data)
    \/ \E id \in RaceIds : startDestroy(id)
    \/ \E id \in RaceIds : startSync(id)
    \/ \E i \in 1..MaxTasks : stepMutation(i)
    \/ \E i \in 1..MaxTasks : stepSync(i)

SpecRace == InitRace /\ [][NextRace]_vars

\* No call is in flight.
Quiescent == \A i \in DOMAIN running : Settled(running[i].task)

\* C19: with caching, however the statements of update, destroy and sync of
\* one id interleave, once no call is in flight an id whose local row is
\* not what it was at its last completed sync has a shadow row, and that
\* row holds the payload of that sync.
C19_MutationTracked ==
    Quiescent
    => \A id \in RaceIds :
          Payload(resources, id) # synced[id]
          => \E r \in ShadowRows(resources, RaceHook, id) : r.data = synced[id]

\* Two calls were made, both update or destroy of one id, both while the id
\* had a local row and no shadow row, and both have settled.
TwoMutationsOfCleanId ==
    /\ Quiescent
    /\ Len(running) = 2
    /\ \A i \in DOMAIN running :
          /\ running[i].task.kind \in {"update", "destroy"}
          /\ running[i].clean
          /\ running[i].base # Absent
    /\ running[1].task.id = running[2].task.id

\* The local payload once both mutations are applied, in either order.
BothApplied(base, t1, t2) ==
    IF t1.kind = "update" /\ t2.kind = "update"
    THEN LET p1 == JSONstringify(inverseTransformer(t1.data))
             p2 == JSONstringify(inverseTransformer(t2.data))
         IN  {json_patch(json_patch(base, p1), p2), json_patch(json_patch(base, p2), p1)}
    ELSE {Absent}

\* C20: with caching, two mutations of one clean id that run concurrently
\* both fulfil under every interleaving of their statements, leave exactly
\* one shadow row, holding the local payload from before both, and are
\* both applied to the local row.
C20_ConcurrentMutations ==
    TwoMutationsOfCleanId
    => LET t1 == running[1].task
           t2 == running[2].task
           base == running[1].base
       IN  /\ t1.pc = "done" /\ t2.pc = "done"
           /\ ShadowRows(resources, RaceHook, t1.id)
                = {Row(RaceHook.resource, RaceHook.key, "remote",
                       JSONstringifyId(t1.id), base)}
           /\ Payload(resources, t1.id) \in BothApplied(base, t1, t2)

====
